---- MODULE Spec2Model ----
(***************************************************************************)
(* gtc: the command-line token counter (gtc/count_tokens.py) and the MCP   *)
(* tool server (gtc/mcp_server.py), modelled as one state machine.  A      *)
(* behaviour is either one run of the CLI's main() or a sequence of tool   *)
(* calls handled by the server.  The tokenizer library and the file system *)
(* are the environment: a fixed directory, a fixed set of encodings.       *)
(***************************************************************************)
EXTENDS Integers, Sequences, FiniteSets, TLC

\* ------------------------------------------------------------------ bounds
MaxArgs == 2      \* most file arguments on the CLI command line
MaxPaths == 2     \* most entries of count_tokens_multi's file_paths

\* ------------------------------------------------------------ Python values
None == "<None>"                      \* None where a str is expected
NoExit == -1                          \* exit_code while the process runs
NoError == [msg |-> None, path |-> <<>>]   \* the None of an error message
Truthy(s) == s # None /\ s # ""       \* truth value of an Optional[str]

Range(s) == {s[k] : k \in DOMAIN s}
SeqsUpTo(S, n) == UNION {[1..k -> S] : k \in 0..n}

\* ------------------------------------------------- the static model tables
DEFAULT_MODEL == "gpt-5"

MODEL_ENCODINGS ==
    [m \in {"gpt-5", "gpt-4o", "gpt-4o-mini", "gpt-4-turbo", "gpt-4",
            "gpt-3.5-turbo", "text-embedding-3-small",
            "text-embedding-3-large", "text-embedding-ada-002"} |->
        IF m \in {"gpt-5", "gpt-4o", "gpt-4o-mini"}
        THEN "o200k_base" ELSE "cl100k_base"]

mcp_DEFAULT_MODEL == "gpt-5"

mcp_MODEL_ENCODINGS ==
    [m \in {"gpt-5", "gpt-4o", "gpt-4o-mini", "gpt-4-turbo", "gpt-4",
            "gpt-3.5-turbo", "text-embedding-3-small",
            "text-embedding-3-large", "text-embedding-ada-002"} |->
        IF m \in {"gpt-5", "gpt-4o", "gpt-4o-mini"}
        THEN "o200k_base" ELSE "cl100k_base"]

\* ------------------------------------------- the tokenizer library (tiktoken)
\* tiktoken.list_encoding_names(): the encodings the library knows.
list_encoding_names == <<"p50k_base", "cl100k_base", "o200k_base">>

\* Encoding.n_vocab
n_vocab == [p50k_base |-> 50281, cl100k_base |-> 100277, o200k_base |-> 200019]

\* The library's own model-name lookup, used by tiktoken.encoding_for_model.
LibModelEncodings ==
    [m \in {"text-davinci-003", "gpt-4", "gpt-4o"} |->
        IF m = "text-davinci-003" THEN "p50k_base"
        ELSE IF m = "gpt-4" THEN "cl100k_base" ELSE "o200k_base"]

\* The exception class get_encoding raises for a name it does not know is the
\* library's choice; main() expects KeyError.  Both outcomes are kept.
GetEncodingRaises == {"KeyError", "ValueError"}

\* tiktoken.get_encoding(name); x is the class raised for an unknown name.
\* The result carries the library calls made, in order.
tiktoken_get_encoding(name, x) ==
    IF name \in Range(list_encoding_names)
    THEN [ok |-> TRUE, name |-> name, exc |-> None, arg |-> name,
          calls |-> <<[fn |-> "get_encoding", arg |-> name]>>]
    ELSE [ok |-> FALSE, name |-> None, exc |-> x, arg |-> name,
          calls |-> <<[fn |-> "get_encoding", arg |-> name]>>]

\* tiktoken.encoding_for_model(model): KeyError for a model it cannot map.
tiktoken_encoding_for_model(model, x) ==
    IF model \in DOMAIN LibModelEncodings
    THEN [ok |-> TRUE, name |-> LibModelEncodings[model], exc |-> None,
          arg |-> model,
          calls |-> <<[fn |-> "encoding_for_model", arg |-> model]>>]
    ELSE [ok |-> FALSE, name |-> None, exc |-> "KeyError", arg |-> model,
          calls |-> <<[fn |-> "encoding_for_model", arg |-> model]>>]

\* Texts are named; Chars is len(text), Tokens is len(encoder.encode(text)).
Texts == {"", "A", "B"}
Chars == [t \in Texts |-> IF t = "" THEN 0 ELSE IF t = "A" THEN 40 ELSE 5000]
Tokens ==
    [t \in Texts |->
        [e \in Range(list_encoding_names) |->
            IF t = "" THEN 0
            ELSE IF t = "A"
                 THEN (IF e = "o200k_base" THEN 10
                       ELSE IF e = "cl100k_base" THEN 12 ELSE 15)
                 ELSE (IF e = "o200k_base" THEN 1234
                       ELSE IF e = "cl100k_base" THEN 1300 ELSE 1500)]]

\* ------------------------------------------------------------ the file system
\* A path is the sequence of its characters.  The working directory holds
\* the entries below, in the order the directory scan yields them.
DirListing ==
    << [name |-> <<"a">>,      kind |-> "file",   content |-> "A"],
       [name |-> <<"a", "b">>, kind |-> "file",   content |-> "B"],
       [name |-> <<"d">>,      kind |-> "dir",    content |-> ""],
       [name |-> <<"u">>,      kind |-> "binary", content |-> ""],
       [name |-> <<"s">>,      kind |-> "noperm", content |-> ""],
       [name |-> <<"e">>,      kind |-> "ioerr",  content |-> ""] >>

Entry(p) == CHOOSE en \in Range(DirListing) : en.name = p

\* Path.exists()
exists(p) == \E en \in Range(DirListing) : en.name = p

\* Path.is_dir()
is_dir(p) == exists(p) /\ Entry(p).kind = "dir"

\* Path.read_text(encoding="utf-8"): the content, or the exception raised.
read_text(p) ==
    IF ~exists(p) THEN [ok |-> FALSE, exc |-> "FileNotFoundError", content |-> ""]
    ELSE LET k == Entry(p).kind IN
         IF k = "file" THEN [ok |-> TRUE, exc |-> None, content |-> Entry(p).content]
         ELSE IF k = "dir" THEN [ok |-> FALSE, exc |-> "IsADirectoryError", content |-> ""]
         ELSE IF k = "binary" THEN [ok |-> FALSE, exc |-> "UnicodeDecodeError", content |-> ""]
         ELSE IF k = "noperm" THEN [ok |-> FALSE, exc |-> "PermissionError", content |-> ""]
         ELSE [ok |-> FALSE, exc |-> "OSError", content |-> ""]

\* "*" in str(filepath)
HasStar(p) == \E k \in DOMAIN p : p[k] = "*"

\* Shell-style match of a name against a pattern whose only wildcard is "*".
RECURSIVE Match(_, _)
Match(pat, s) ==
    IF pat = <<>> THEN s = <<>>
    ELSE IF Head(pat) = "*"
         THEN Match(Tail(pat), s) \/ (s # <<>> /\ Match(pat, Tail(s)))
         ELSE s # <<>> /\ Head(s) = Head(pat) /\ Match(Tail(pat), Tail(s))

RECURSIVE MatchingNames(_, _)
MatchingNames(pat, listing) ==
    IF listing = <<>> THEN <<>>
    ELSE (IF Match(pat, Head(listing).name) THEN <<Head(listing).name>> ELSE <<>>)
         \o MatchingNames(pat, Tail(listing))

\* list(Path(".").glob(str(filepath)))
glob(pat) == MatchingNames(pat, DirListing)

\* ---------------------------------------------------- count_tokens.py helpers
\* get_encoder with the model looked at before the encoding name.
get_encoder_model_first(model, encoding, x) ==
    IF Truthy(model)
    THEN IF model \in DOMAIN MODEL_ENCODINGS
         THEN tiktoken_get_encoding(MODEL_ENCODINGS[model], x)
         ELSE tiktoken_encoding_for_model(model, x)
    ELSE IF Truthy(encoding) THEN tiktoken_get_encoding(encoding, x)
    ELSE tiktoken_get_encoding(MODEL_ENCODINGS[DEFAULT_MODEL], x)

\* get_encoder(model, encoding) of the CLI.
get_encoder(model, encoding, x) ==
    IF Truthy(encoding) THEN tiktoken_get_encoding(encoding, x)
    ELSE IF Truthy(model)
         THEN IF model \in DOMAIN MODEL_ENCODINGS
              THEN tiktoken_get_encoding(MODEL_ENCODINGS[model], x)
              ELSE tiktoken_encoding_for_model(model, x)
         ELSE tiktoken_get_encoding(MODEL_ENCODINGS[DEFAULT_MODEL], x)

\* count_tokens(text, encoder) == len(encoder.encode(text))
count_tokens(text, encoder) == Tokens[text][encoder]

\* count_file_tokens without the FileNotFoundError handler: a missing file
\* falls through to the generic handler.
count_file_tokens_no_fnf(filepath, encoder) ==
    LET rd == read_text(filepath) IN
    IF rd.ok
    THEN [token_count |-> count_tokens(rd.content, encoder), error |-> NoError,
          calls |-> <<[fn |-> "encode", arg |-> rd.content]>>]
    ELSE IF rd.exc = "PermissionError"
    THEN [token_count |-> 0, error |-> [msg |-> "Permission denied", path |-> filepath],
          calls |-> <<>>]
    ELSE IF rd.exc = "UnicodeDecodeError"
    THEN [token_count |-> 0,
          error |-> [msg |-> "Unable to decode file (not UTF-8)", path |-> filepath],
          calls |-> <<>>]
    ELSE [token_count |-> 0, error |-> [msg |-> "Error reading", path |-> filepath],
          calls |-> <<>>]

\* count_file_tokens(filepath, encoder): (token_count, error_message), with
\* the library calls made.
count_file_tokens(filepath, encoder) ==
    LET rd == read_text(filepath) IN
    IF rd.ok
    THEN [token_count |-> count_tokens(rd.content, encoder), error |-> NoError,
          calls |-> <<[fn |-> "encode", arg |-> rd.content]>>]
    ELSE IF rd.exc = "FileNotFoundError"
    THEN [token_count |-> 0, error |-> [msg |-> "File not found", path |-> filepath],
          calls |-> <<>>]
    ELSE IF rd.exc = "PermissionError"
    THEN [token_count |-> 0, error |-> [msg |-> "Permission denied", path |-> filepath],
          calls |-> <<>>]
    ELSE IF rd.exc = "UnicodeDecodeError"
    THEN [token_count |-> 0,
          error |-> [msg |-> "Unable to decode file (not UTF-8)", path |-> filepath],
          calls |-> <<>>]
    ELSE [token_count |-> 0, error |-> [msg |-> "Error reading", path |-> filepath],
          calls |-> <<>>]

Digit(d) == <<"0", "1", "2", "3", "4", "5", "6", "7", "8", "9">>[d + 1]

RECURSIVE Decimal(_)
Decimal(n) == IF n < 10 THEN <<Digit(n)>> ELSE Decimal(n \div 10) \o <<Digit(n % 10)>>

\* format_number(n) == f"{n:,}"
RECURSIVE format_number(_)
format_number(n) ==
    IF n < 1000 THEN Decimal(n)
    ELSE format_number(n \div 1000)
         \o <<",", Digit((n % 1000) \div 100), Digit((n % 100) \div 10), Digit(n % 10)>>

\* ------------------------------------------------------ mcp_server.py helpers
\* get_encoder(model, encoding) of the tool server; every caller passes only
\* the model, so encoding is None.
mcp_get_encoder(model, encoding, x) ==
    IF Truthy(encoding) THEN tiktoken_get_encoding(encoding, x)
    ELSE IF Truthy(model)
         THEN IF model \in DOMAIN mcp_MODEL_ENCODINGS
              THEN tiktoken_get_encoding(mcp_MODEL_ENCODINGS[model], x)
              ELSE tiktoken_encoding_for_model(model, x)
         ELSE tiktoken_get_encoding(mcp_MODEL_ENCODINGS[mcp_DEFAULT_MODEL], x)

\* ------------------------------------------------------------------ inputs
\* Paths given on the command line or in a tool call.
PathChoices ==
    { <<"a">>, <<"a", "b">>, <<"d">>, <<"u">>, <<"s">>, <<"e">>,   \* entries
      <<"m">>,                                                 \* missing
      <<"a", "*">>, <<"d", "*">>, <<"*", "z">> }               \* patterns

\* Model names: the default, one in the table whose encoding differs from the
\* default, one only the library knows, one nobody knows, and the empty name.
ModelChoices == {"gpt-5", "gpt-4", "text-davinci-003", "no-such-model", ""}

\* --encoding values: absent, a known encoding, an unknown one.
EncodingChoices == {None, "p50k_base", "no-such-encoding"}

\* ------------------------------------------------------------------- state
VARIABLES
    pc,                \* position of the running program
    argv,              \* CLI: the parsed arguments (args)
    request,           \* server: the tool call being handled
    encoder,           \* name of the resolved encoder, None before resolution
    results,           \* successful (file_path, tokens) records, in order
    errors,            \* error messages, in order
    total_tokens,      \* running total
    i,                 \* index of the current entry of args.files / file_paths
    files_to_process,  \* CLI: files of the current argument still to count
    stdout,            \* CLI: lines printed to standard output
    stderr,            \* CLI: lines printed to standard error
    exit_code,         \* CLI: process exit status, NoExit while running
    response,          \* server: the record returned by the last tool call
    raised,            \* exception class that escaped, None if none
    libCalls,          \* tokenizer library calls of the current run / call
    reads              \* paths read_text was called on in the current run / call

vars == <<pc, argv, request, encoder, results, errors, total_tokens, i,
          files_to_process, stdout, stderr, exit_code, response, raised,
          libCalls, reads>>

NoArgv == [files |-> <<>>, model |-> DEFAULT_MODEL, encoding |-> None,
           verbose |-> FALSE, list_encodings |-> FALSE]
NoRequest == [op |-> None]
NoResponse == [kind |-> None]

\* parser.parse_args(): every command line within the bounds.
ArgvSet ==
    [files : SeqsUpTo(PathChoices, MaxArgs), model : ModelChoices,
     encoding : EncodingChoices, verbose : BOOLEAN, list_encodings : BOOLEAN]

Init ==
    /\ \/ pc = "cli_main" /\ argv \in ArgvSet
       \/ pc = "mcp_idle" /\ argv = NoArgv
    /\ request = NoRequest
    /\ encoder = None
    /\ results = <<>>
    /\ errors = <<>>
    /\ total_tokens = 0
    /\ i = 0
    /\ files_to_process = <<>>
    /\ stdout = <<>>
    /\ stderr = <<>>
    /\ exit_code = NoExit
    /\ response = NoResponse
    /\ raised = None
    /\ libCalls = <<>>
    /\ reads = <<>>

ServerVars == <<request, response>>
CountVars == <<results, errors, total_tokens, i, files_to_process, reads>>

\* ---------------------------------------------------------------- CLI main()
\* --list-encodings: print the encodings and the model table, return 0.
ListingLines ==
    <<[line |-> "Available encodings:"]>>
    \o [k \in DOMAIN list_encoding_names |->
          [line |-> "encoding", name |-> list_encoding_names[k],
           vocab_size |-> format_number(n_vocab[list_encoding_names[k]])]]
    \o <<[line |-> "Model to encoding mapping:"]>>
    \o <<[line |-> "mapping", table |-> MODEL_ENCODINGS]>>

main_list_encodings ==
    /\ pc = "cli_main"
    /\ argv.list_encodings
    /\ stdout' = ListingLines
    /\ libCalls' = [k \in DOMAIN list_encoding_names |->
                      [fn |-> "get_encoding", arg |-> list_encoding_names[k]]]
    /\ exit_code' = 0
    /\ pc' = "cli_exit"
    /\ UNCHANGED <<argv, encoder, stderr, raised>>
    /\ UNCHANGED CountVars
    /\ UNCHANGED ServerVars

\* The files check made before the --list-encodings check.
main_no_files_checked_first ==
    /\ pc = "cli_main"
    /\ argv.files = <<>>
    /\ stderr' = <<[line |-> "usage"],
                   [line |-> "error: No files specified. Provide file path(s) or use --list-encodings."]>>
    /\ exit_code' = 2
    /\ pc' = "cli_exit"
    /\ UNCHANGED <<argv, encoder, stdout, raised, libCalls>>
    /\ UNCHANGED CountVars
    /\ UNCHANGED ServerVars

\* No files: parser.error() prints the usage message and exits with status 2.
main_no_files ==
    /\ pc = "cli_main"
    /\ ~argv.list_encodings
    /\ argv.files = <<>>
    /\ stderr' = <<[line |-> "usage"],
                   [line |-> "error: No files specified. Provide file path(s) or use --list-encodings."]>>
    /\ exit_code' = 2
    /\ pc' = "cli_exit"
    /\ UNCHANGED <<argv, encoder, stdout, raised, libCalls>>
    /\ UNCHANGED CountVars
    /\ UNCHANGED ServerVars

VerboseLines(enc) ==
    <<[line |-> "Using encoding", name |-> enc],
      [line |-> "Vocabulary size", vocab_size |-> format_number(n_vocab[enc])],
      [line |-> "-" , width |-> 50]>>

\* Encoder resolved: optional verbose header, then the processing loop starts.
main_get_encoder ==
    /\ pc = "cli_main"
    /\ ~argv.list_encodings
    /\ argv.files # <<>>
    /\ \E x \in GetEncodingRaises :
         LET r == get_encoder(argv.model, argv.encoding, x) IN
         /\ r.ok
         /\ encoder' = r.name
         /\ libCalls' = r.calls
         /\ stdout' = IF argv.verbose THEN VerboseLines(r.name) ELSE <<>>
    /\ results' = <<>>
    /\ errors' = <<>>
    /\ total_tokens' = 0
    /\ i' = 1
    /\ pc' = "cli_loop"
    /\ UNCHANGED <<argv, files_to_process, stderr, exit_code, raised, reads>>
    /\ UNCHANGED ServerVars

\* get_encoder raised KeyError: two lines on stdout, return 1.
main_unknown_encoder ==
    /\ pc = "cli_main"
    /\ ~argv.list_encodings
    /\ argv.files # <<>>
    /\ \E x \in GetEncodingRaises :
         LET r == get_encoder(argv.model, argv.encoding, x) IN
         /\ ~r.ok
         /\ r.exc = "KeyError"
         /\ libCalls' = r.calls
         /\ stdout' = <<[line |-> "Error: Unknown model or encoding", name |-> r.arg],
                        [line |-> "Use --list-encodings to see available options."]>>
    /\ exit_code' = 1
    /\ pc' = "cli_exit"
    /\ UNCHANGED <<argv, encoder, stderr, raised>>
    /\ UNCHANGED CountVars
    /\ UNCHANGED ServerVars

\* get_encoder raised something main() does not catch: the exception leaves
\* main(), the interpreter prints the traceback and exits with status 1.
main_encoder_uncaught ==
    /\ pc = "cli_main"
    /\ ~argv.list_encodings
    /\ argv.files # <<>>
    /\ \E x \in GetEncodingRaises :
         LET r == get_encoder(argv.model, argv.encoding, x) IN
         /\ ~r.ok
         /\ r.exc # "KeyError"
         /\ libCalls' = r.calls
         /\ raised' = r.exc
         /\ stderr' = <<[line |-> "Traceback", exc |-> r.exc, name |-> r.arg]>>
    /\ exit_code' = 1
    /\ pc' = "cli_exit"
    /\ UNCHANGED <<argv, encoder, stdout>>
    /\ UNCHANGED CountVars
    /\ UNCHANGED ServerVars

\* The unmatched pattern ends the loop (break instead of continue).
main_no_match_break ==
    /\ pc = "cli_loop"
    /\ i <= Len(argv.files)
    /\ HasStar(argv.files[i])
    /\ glob(argv.files[i]) = <<>>
    /\ errors' = Append(errors, [msg |-> "No files match pattern", path |-> argv.files[i]])
    /\ i' = Len(argv.files) + 1
    /\ UNCHANGED <<pc, argv, encoder, results, total_tokens, files_to_process,
                   stdout, stderr, exit_code, raised, libCalls, reads>>
    /\ UNCHANGED ServerVars

\* The unmatched pattern is skipped without an error.
main_no_match_silent ==
    /\ pc = "cli_loop"
    /\ i <= Len(argv.files)
    /\ HasStar(argv.files[i])
    /\ glob(argv.files[i]) = <<>>
    /\ i' = i + 1
    /\ UNCHANGED <<pc, argv, encoder, results, errors, total_tokens, files_to_process,
                   stdout, stderr, exit_code, raised, libCalls, reads>>
    /\ UNCHANGED ServerVars

\* Top of the outer loop, pattern that matches nothing: one error, continue.
main_no_match ==
    /\ pc = "cli_loop"
    /\ i <= Len(argv.files)
    /\ HasStar(argv.files[i])
    /\ glob(argv.files[i]) = <<>>
    /\ errors' = Append(errors, [msg |-> "No files match pattern", path |-> argv.files[i]])
    /\ i' = i + 1
    /\ UNCHANGED <<pc, argv, encoder, results, total_tokens, files_to_process,
                   stdout, stderr, exit_code, raised, libCalls, reads>>
    /\ UNCHANGED ServerVars

\* Top of the outer loop otherwise: files_to_process is the expansion of the
\* pattern, or the argument itself.
main_expand ==
    /\ pc = "cli_loop"
    /\ i <= Len(argv.files)
    /\ LET filepath == argv.files[i] IN
       IF HasStar(filepath)
       THEN /\ glob(filepath) # <<>>
            /\ files_to_process' = glob(filepath)
       ELSE files_to_process' = <<filepath>>
    /\ pc' = "cli_files"
    /\ UNCHANGED <<argv, encoder, results, errors, total_tokens, i,
                   stdout, stderr, exit_code, raised, libCalls, reads>>
    /\ UNCHANGED ServerVars

\* The inner loop without the is_dir() test: a directory goes to
\* count_file_tokens like any other path.
main_file_no_dir_check ==
    /\ pc = "cli_files"
    /\ files_to_process # <<>>
    /\ LET file_path == Head(files_to_process)
           r == count_file_tokens(file_path, encoder) IN
       /\ reads' = Append(reads, file_path)
       /\ libCalls' = libCalls \o r.calls
       /\ IF r.error # NoError
          THEN /\ errors' = Append(errors, r.error)
               /\ UNCHANGED <<results, total_tokens>>
          ELSE /\ results' = Append(results, [file_path |-> file_path,
                                              tokens |-> r.token_count])
               /\ total_tokens' = total_tokens + r.token_count
               /\ UNCHANGED errors
    /\ files_to_process' = Tail(files_to_process)
    /\ IF Tail(files_to_process) = <<>>
       THEN pc' = "cli_loop" /\ i' = i + 1
       ELSE pc' = "cli_files" /\ i' = i
    /\ UNCHANGED <<argv, encoder, stdout, stderr, exit_code, raised>>
    /\ UNCHANGED ServerVars

\* One iteration of the inner loop: skip a directory, else count the file.
main_file ==
    /\ pc = "cli_files"
    /\ files_to_process # <<>>
    /\ LET file_path == Head(files_to_process) IN
       IF is_dir(file_path)
       THEN /\ errors' = Append(errors, [msg |-> "Skipping directory", path |-> file_path])
            /\ UNCHANGED <<results, total_tokens, libCalls, reads>>
       ELSE LET r == count_file_tokens(file_path, encoder) IN
            /\ reads' = Append(reads, file_path)
            /\ libCalls' = libCalls \o r.calls
            /\ IF r.error # NoError
               THEN /\ errors' = Append(errors, r.error)
                    /\ UNCHANGED <<results, total_tokens>>
               ELSE /\ results' = Append(results, [file_path |-> file_path,
                                                   tokens |-> r.token_count])
                    /\ total_tokens' = total_tokens + r.token_count
                    /\ UNCHANGED errors
    /\ files_to_process' = Tail(files_to_process)
    /\ IF Tail(files_to_process) = <<>>
       THEN pc' = "cli_loop" /\ i' = i + 1
       ELSE pc' = "cli_files" /\ i' = i
    /\ UNCHANGED <<argv, encoder, stdout, stderr, exit_code, raised>>
    /\ UNCHANGED ServerVars

Min(a, b) == IF a < b THEN a ELSE b

\* max(len(str(fp)) for fp, _ in results)
MaxPathLen(rs) == CHOOSE n \in {Len(rs[k].file_path) : k \in DOMAIN rs} :
                    \A k \in DOMAIN rs : Len(rs[k].file_path) <= n

\* The printed path: "..." and the last 57 characters beyond 60 characters.
PathStr(fp) ==
    IF Len(fp) > 60 THEN <<".", ".", ".">> \o SubSeq(fp, Len(fp) - 56, Len(fp)) ELSE fp

\* The result lines, and the separator and total lines for several results.
ResultLines(rs, total) ==
    IF rs = <<>> THEN <<>>
    ELSE LET max_path_len == Min(MaxPathLen(rs), 60) IN
         [k \in DOMAIN rs |->
            [line |-> "result", path_str |-> PathStr(rs[k].file_path),
             width |-> max_path_len, tokens |-> format_number(rs[k].tokens)]]
         \o (IF Len(rs) > 1
             THEN <<[line |-> "-", width |-> max_path_len + 14],
                    [line |-> "Total", width |-> max_path_len,
                     tokens |-> format_number(total)]>>
             ELSE <<>>)

ErrorLines(es) ==
    IF es = <<>> THEN <<>>
    ELSE <<[line |-> "Errors:"]>> \o [k \in DOMAIN es |-> [line |-> "error", error |-> es[k]]]

\* Exit status 1 as soon as there is any error.
ExitCode_any_error(rs, es) == IF es # <<>> THEN 1 ELSE 0

\* The exit status main() returns after the loop.
ExitCode(rs, es) == IF rs = <<>> /\ es # <<>> THEN 1 ELSE 0

\* After the loop: print results, print errors, return the exit code.
main_report ==
    /\ pc = "cli_loop"
    /\ i > Len(argv.files)
    /\ stdout' = stdout \o ResultLines(results, total_tokens)
    /\ stderr' = stderr \o ErrorLines(errors)
    /\ exit_code' = ExitCode(results, errors)
    /\ pc' = "cli_exit"
    /\ UNCHANGED <<argv, encoder, raised, libCalls>>
    /\ UNCHANGED CountVars
    /\ UNCHANGED ServerVars

\* ------------------------------------------------------------ the tool server
\* The server waits for the next tool call.
Ready == pc = "mcp_idle"

CliVars == <<argv, files_to_process, stdout, stderr, exit_code>>

\* count_tokens(file_path, model): the record the tool returns, with the
\* library calls and reads it made.
CountTokensResult(file_path, model, x) ==
    IF ~exists(file_path)
    THEN [rec |-> [error |-> [msg |-> "File not found", path |-> file_path],
                   file_path |-> file_path, tokens |-> 0],
          enc |-> None, calls |-> <<>>, reads |-> <<>>]
    ELSE IF is_dir(file_path)
    THEN [rec |-> [error |-> [msg |-> "Path is a directory", path |-> file_path],
                   file_path |-> file_path, tokens |-> 0],
          enc |-> None, calls |-> <<>>, reads |-> <<>>]
    ELSE LET r == mcp_get_encoder(model, None, x) IN
         IF ~r.ok
         THEN [rec |-> [error |-> [msg |-> r.exc, name |-> r.arg],
                        file_path |-> file_path, tokens |-> 0],
               enc |-> None, calls |-> r.calls, reads |-> <<>>]
         ELSE LET rd == read_text(file_path) IN
              IF rd.ok
              THEN [rec |-> [file_path |-> file_path,
                             tokens |-> Tokens[rd.content][r.name],
                             model |-> model, encoding |-> r.name],
                    enc |-> r.name,
                    calls |-> r.calls \o <<[fn |-> "encode", arg |-> rd.content]>>,
                    reads |-> <<file_path>>]
              ELSE IF rd.exc = "UnicodeDecodeError"
              THEN [rec |-> [error |-> [msg |-> "Unable to decode file (not UTF-8)",
                                        path |-> file_path],
                             file_path |-> file_path, tokens |-> 0],
                    enc |-> r.name, calls |-> r.calls, reads |-> <<file_path>>]
              ELSE [rec |-> [error |-> [msg |-> rd.exc, path |-> file_path],
                             file_path |-> file_path, tokens |-> 0],
                    enc |-> r.name, calls |-> r.calls, reads |-> <<file_path>>]

mcp_count_tokens ==
    /\ Ready
    /\ \E file_path \in PathChoices, model \in ModelChoices, x \in GetEncodingRaises :
         LET r == CountTokensResult(file_path, model, x) IN
         /\ request' = [op |-> "count_tokens", file_path |-> file_path, model |-> model]
         /\ response' = r.rec
         /\ encoder' = r.enc
         /\ libCalls' = r.calls
         /\ reads' = r.reads
    /\ results' = <<>>
    /\ errors' = <<>>
    /\ total_tokens' = 0
    /\ i' = 0
    /\ raised' = None
    /\ pc' = "mcp_returned"
    /\ UNCHANGED CliVars

\* count_tokens_multi up to the loop: the encoder is resolved once, outside
\* any try block.
mcp_count_tokens_multi ==
    /\ Ready
    /\ \E file_paths \in SeqsUpTo(PathChoices, MaxPaths), model \in ModelChoices,
          x \in GetEncodingRaises :
         LET r == mcp_get_encoder(model, None, x) IN
         /\ r.ok
         /\ request' = [op |-> "count_tokens_multi", file_paths |-> file_paths,
                        model |-> model]
         /\ encoder' = r.name
         /\ libCalls' = r.calls
    /\ results' = <<>>
    /\ errors' = <<>>
    /\ total_tokens' = 0
    /\ i' = 1
    /\ reads' = <<>>
    /\ response' = NoResponse
    /\ raised' = None
    /\ pc' = "mcp_multi"
    /\ UNCHANGED CliVars

\* count_tokens_multi when get_encoder raises: the exception leaves the tool.
mcp_count_tokens_multi_raises ==
    /\ Ready
    /\ \E file_paths \in SeqsUpTo(PathChoices, MaxPaths), model \in ModelChoices,
          x \in GetEncodingRaises :
         LET r == mcp_get_encoder(model, None, x) IN
         /\ ~r.ok
         /\ request' = [op |-> "count_tokens_multi", file_paths |-> file_paths,
                        model |-> model]
         /\ libCalls' = r.calls
         /\ raised' = r.exc
    /\ encoder' = None
    /\ results' = <<>>
    /\ errors' = <<>>
    /\ total_tokens' = 0
    /\ i' = 0
    /\ reads' = <<>>
    /\ response' = NoResponse
    /\ pc' = "mcp_raised"
    /\ UNCHANGED CliVars

\* count_tokens_multi's loop leaving at the first failing file.
mcp_multi_file_fail_fast ==
    /\ pc = "mcp_multi"
    /\ i <= Len(request.file_paths)
    /\ LET file_path == request.file_paths[i] IN
       IF ~exists(file_path)
       THEN /\ errors' = Append(errors, [msg |-> "File not found", path |-> file_path])
            /\ i' = Len(request.file_paths) + 1
            /\ UNCHANGED <<results, total_tokens, libCalls, reads>>
       ELSE IF is_dir(file_path)
       THEN /\ errors' = Append(errors, [msg |-> "Path is a directory", path |-> file_path])
            /\ i' = Len(request.file_paths) + 1
            /\ UNCHANGED <<results, total_tokens, libCalls, reads>>
       ELSE LET rd == read_text(file_path) IN
            /\ reads' = Append(reads, file_path)
            /\ IF rd.ok
               THEN LET token_count == Tokens[rd.content][encoder] IN
                    /\ libCalls' = Append(libCalls, [fn |-> "encode", arg |-> rd.content])
                    /\ results' = Append(results, [file_path |-> file_path,
                                                   tokens |-> token_count])
                    /\ total_tokens' = total_tokens + token_count
                    /\ i' = i + 1
                    /\ UNCHANGED errors
               ELSE /\ errors' = Append(errors,
                          IF rd.exc = "UnicodeDecodeError"
                          THEN [msg |-> "Unable to decode file (not UTF-8)", path |-> file_path]
                          ELSE [msg |-> "Error reading", path |-> file_path, exc |-> rd.exc])
                    /\ i' = Len(request.file_paths) + 1
                    /\ UNCHANGED <<results, total_tokens, libCalls>>
    /\ UNCHANGED <<pc, request, response, encoder, raised>>
    /\ UNCHANGED CliVars

\* One iteration of count_tokens_multi's loop.
mcp_multi_file ==
    /\ pc = "mcp_multi"
    /\ i <= Len(request.file_paths)
    /\ LET file_path == request.file_paths[i] IN
       IF ~exists(file_path)
       THEN /\ errors' = Append(errors, [msg |-> "File not found", path |-> file_path])
            /\ UNCHANGED <<results, total_tokens, libCalls, reads>>
       ELSE IF is_dir(file_path)
       THEN /\ errors' = Append(errors, [msg |-> "Path is a directory", path |-> file_path])
            /\ UNCHANGED <<results, total_tokens, libCalls, reads>>
       ELSE LET rd == read_text(file_path) IN
            /\ reads' = Append(reads, file_path)
            /\ IF rd.ok
               THEN LET token_count == Tokens[rd.content][encoder] IN
                    /\ libCalls' = Append(libCalls, [fn |-> "encode", arg |-> rd.content])
                    /\ results' = Append(results, [file_path |-> file_path,
                                                   tokens |-> token_count])
                    /\ total_tokens' = total_tokens + token_count
                    /\ UNCHANGED errors
               ELSE /\ errors' = Append(errors,
                          IF rd.exc = "UnicodeDecodeError"
                          THEN [msg |-> "Unable to decode file (not UTF-8)", path |-> file_path]
                          ELSE [msg |-> "Error reading", path |-> file_path, exc |-> rd.exc])
                    /\ UNCHANGED <<results, total_tokens, libCalls>>
    /\ i' = i + 1
    /\ UNCHANGED <<pc, request, response, encoder, raised>>
    /\ UNCHANGED CliVars

\* The return statement reporting the number of files as the total.
mcp_multi_return_count_as_total ==
    /\ pc = "mcp_multi"
    /\ i > Len(request.file_paths)
    /\ response' = [files |-> results, total_tokens |-> Len(results),
                    file_count |-> Len(results), model |-> request.model,
                    encoding |-> encoder,
                    errors |-> IF errors # <<>> THEN [none |-> FALSE, list |-> errors]
                               ELSE [none |-> TRUE, list |-> <<>>]]
    /\ pc' = "mcp_returned"
    /\ UNCHANGED <<request, encoder, raised, libCalls>>
    /\ UNCHANGED CountVars
    /\ UNCHANGED CliVars

\* count_tokens_multi's return statement.
mcp_multi_return ==
    /\ pc = "mcp_multi"
    /\ i > Len(request.file_paths)
    /\ response' = [files |-> results, total_tokens |-> total_tokens,
                    file_count |-> Len(results), model |-> request.model,
                    encoding |-> encoder,
                    errors |-> IF errors # <<>> THEN [none |-> FALSE, list |-> errors]
                               ELSE [none |-> TRUE, list |-> <<>>]]
    /\ pc' = "mcp_returned"
    /\ UNCHANGED <<request, encoder, raised, libCalls>>
    /\ UNCHANGED CountVars
    /\ UNCHANGED CliVars

\* count_text_tokens(text, model): no try block at all.
mcp_count_text_tokens ==
    /\ Ready
    /\ \E text \in Texts, model \in ModelChoices, x \in GetEncodingRaises :
         LET r == mcp_get_encoder(model, None, x) IN
         /\ request' = [op |-> "count_text_tokens", text |-> text, model |-> model]
         /\ libCalls' = r.calls \o (IF r.ok THEN <<[fn |-> "encode", arg |-> text]>> ELSE <<>>)
         /\ encoder' = r.name
         /\ IF r.ok
            THEN /\ response' = [tokens |-> Tokens[text][r.name], characters |-> Chars[text],
                                 model |-> model, encoding |-> r.name]
                 /\ raised' = None
                 /\ pc' = "mcp_returned"
            ELSE /\ response' = NoResponse
                 /\ raised' = r.exc
                 /\ pc' = "mcp_raised"
    /\ results' = <<>>
    /\ errors' = <<>>
    /\ total_tokens' = 0
    /\ i' = 0
    /\ reads' = <<>>
    /\ UNCHANGED CliVars

\* list_encodings(): the library's encodings and the static table.
mcp_list_encodings ==
    /\ Ready
    /\ request' = [op |-> "list_encodings"]
    /\ response' = [encodings |-> [k \in DOMAIN list_encoding_names |->
                                     [name |-> list_encoding_names[k],
                                      vocab_size |-> n_vocab[list_encoding_names[k]]]],
                    model_mappings |-> mcp_MODEL_ENCODINGS,
                    default_model |-> mcp_DEFAULT_MODEL]
    /\ libCalls' = [k \in DOMAIN list_encoding_names |->
                      [fn |-> "get_encoding", arg |-> list_encoding_names[k]]]
    /\ encoder' = None
    /\ results' = <<>>
    /\ errors' = <<>>
    /\ total_tokens' = 0
    /\ i' = 0
    /\ reads' = <<>>
    /\ raised' = None
    /\ pc' = "mcp_returned"
    /\ UNCHANGED CliVars

\* mcp.run(): the call is over, with a record returned or an exception
\* raised; the tool's locals are gone and the server waits for the next call.
mcp_run ==
    /\ pc \in {"mcp_returned", "mcp_raised"}
    /\ pc' = "mcp_idle"
    /\ request' = NoRequest
    /\ response' = NoResponse
    /\ encoder' = None
    /\ results' = <<>>
    /\ errors' = <<>>
    /\ total_tokens' = 0
    /\ i' = 0
    /\ reads' = <<>>
    /\ raised' = None
    /\ libCalls' = <<>>
    /\ UNCHANGED CliVars

\* ------------------------------------------------------------- specification
Next ==
    \/ main_list_encodings
    \/ main_no_files
    \/ main_get_encoder
    \/ main_unknown_encoder
    \/ main_encoder_uncaught
    \/ main_no_match
    \/ main_expand
    \/ main_file
    \/ main_report
    \/ mcp_count_tokens
    \/ mcp_count_tokens_multi
    \/ mcp_count_tokens_multi_raises
    \/ mcp_multi_file
    \/ mcp_multi_return
    \/ mcp_count_text_tokens
    \/ mcp_list_encodings
    \/ mcp_run

Spec == Init /\ [][Next]_vars

\* ------------------------------------------------------ vocabulary of claims
\* Read directly off the directory, without the Path methods above.
IsFile(p) == \E en \in Range(DirListing) : en.name = p /\ en.kind = "file"
IsDirectory(p) == \E en \in Range(DirListing) : en.name = p /\ en.kind = "dir"
IsAbsent(p) == \A en \in Range(DirListing) : en.name # p
NotFile(p) == ~IsFile(p)
UnmatchedPattern(p) == HasStar(p) /\ MatchingNames(p, DirListing) = <<>>

\* The paths a CLI argument list stands for: a pattern that matches stands
\* for its matches, every other argument for itself.
RECURSIVE ExpandedInputs(_)
ExpandedInputs(args) ==
    IF args = <<>> THEN <<>>
    ELSE (IF HasStar(Head(args)) /\ MatchingNames(Head(args), DirListing) # <<>>
          THEN MatchingNames(Head(args), DirListing) ELSE <<Head(args)>>)
         \o ExpandedInputs(Tail(args))

RECURSIVE SumTokens(_)
SumTokens(rs) == IF rs = <<>> THEN 0 ELSE Head(rs).tokens + SumTokens(Tail(rs))

ResultPaths == [k \in DOMAIN results |-> results[k].file_path]
ErrorPaths == [k \in DOMAIN errors |-> errors[k].path]
EncodeCalls == SelectSeq(libCalls, LAMBDA c : c.fn = "encode")

\* Where the programs are.
CliCounting == pc \in {"cli_loop", "cli_files"}
CliCounted == pc = "cli_exit" /\ encoder # None      \* main_report has run
CliBadEncoder == pc = "cli_exit" /\ encoder = None /\ ~argv.list_encodings
                   /\ argv.files # <<>>
MultiCounting == pc = "mcp_multi"
MultiReturned == pc = "mcp_returned" /\ request.op = "count_tokens_multi"
CallOver == pc \in {"mcp_returned", "mcp_raised"}

\* The names the tokenizer library resolves, stated as literals.
KnownEncoding(e) == e \in {"p50k_base", "cl100k_base", "o200k_base"}
LibraryKnowsModel(m) == m \in {"text-davinci-003", "gpt-4", "gpt-4o"}
InStaticTable(m) == m \in {"gpt-5", "gpt-4o", "gpt-4o-mini", "gpt-4-turbo", "gpt-4",
                           "gpt-3.5-turbo", "text-embedding-3-small",
                           "text-embedding-3-large", "text-embedding-ada-002"}
TableEncoding(m) == IF m \in {"gpt-5", "gpt-4o", "gpt-4o-mini"} THEN "o200k_base"
                    ELSE "cl100k_base"

\* The library call the stated precedence requires for (model, encoding).
RequiredCall(m, e) ==
    IF Truthy(e) THEN [fn |-> "get_encoding", arg |-> e]
    ELSE IF Truthy(m) /\ InStaticTable(m) THEN [fn |-> "get_encoding", arg |-> TableEncoding(m)]
    ELSE IF Truthy(m) THEN [fn |-> "encoding_for_model", arg |-> m]
    ELSE [fn |-> "get_encoding", arg |-> "o200k_base"]

\* Whether the library resolves that call.
Resolvable(m, e) ==
    LET c == RequiredCall(m, e) IN
    IF c.fn = "get_encoding" THEN KnownEncoding(c.arg) ELSE LibraryKnowsModel(c.arg)

\* ------------------------------------------------------------------ claims

\* C1: none of the four tool-server operations raises outward: every call
\* that is over has returned a record and no exception has escaped.
C1_NeverRaisesOutward ==
    CallOver => (raised = None /\ pc = "mcp_returned" /\ response # NoResponse)

\* C2: once main() is past argument parsing, the exit code is 0 when a file
\* produced a result or there are no errors, 1 when there are errors and no
\* result, and 1 when encoder resolution fails; with an unresolvable --model
\* or --encoding no file is ever read or counted.
C2_ExitCode ==
    /\ (pc \in {"cli_main", "cli_loop", "cli_files", "cli_exit"}
          /\ ~argv.list_encodings /\ ~Resolvable(argv.model, argv.encoding))
       => (reads = <<>> /\ results = <<>> /\ EncodeCalls = <<>> /\ ~CliCounting
           /\ (pc = "cli_exit" /\ argv.files # <<>> => exit_code = 1))
    /\ CliBadEncoder => exit_code = 1
    /\ CliCounted =>
          /\ (results # <<>> \/ errors = <<>>) => exit_code = 0
          /\ (results = <<>> /\ errors # <<>>) => exit_code = 1

C2_Witness ==
    /\ pc = "cli_exit" /\ exit_code = 0
    /\ results # <<>> /\ errors # <<>>

\* C3: in batch counting the total is the sum of the counts in the result
\* list after any number of files; a step that adds an error leaves the total
\* and the result list alone; no path is in both lists; the record
\* count_tokens_multi returns carries that total.
C3_TotalIsSum ==
    /\ []((CliCounting \/ CliCounted \/ MultiCounting \/ MultiReturned) =>
            /\ total_tokens = SumTokens(results)
            /\ Range(ResultPaths) \cap Range(ErrorPaths) = {}
            /\ \A k \in DOMAIN results : IsFile(results[k].file_path)
            /\ \A k \in DOMAIN errors : NotFile(errors[k].path))
    /\ [](MultiReturned =>
            /\ response.total_tokens = SumTokens(response.files)
            /\ response.files = results)
    /\ [][((CliCounting \/ MultiCounting) /\ Len(errors') > Len(errors)) =>
            (total_tokens' = total_tokens /\ results' = results)]_vars

C3_Witness ==
    /\ MultiReturned
    /\ Len(results) = 2 /\ total_tokens = 1244

\* C4: batch counting is not fail-fast: every path is processed whatever
\* happened to the ones before it, so at the end results plus errors number
\* the input paths, and each list keeps the input order.
C4_NotFailFast ==
    /\ MultiCounting => Len(results) + Len(errors) = i - 1
    /\ MultiReturned =>
          /\ Len(results) + Len(errors) = Len(request.file_paths)
          /\ ResultPaths = SelectSeq(request.file_paths, IsFile)
          /\ ErrorPaths = SelectSeq(request.file_paths, NotFile)
    /\ CliCounted =>
          /\ Len(results) + Len(errors) = Len(ExpandedInputs(argv.files))
          /\ ResultPaths = SelectSeq(ExpandedInputs(argv.files), IsFile)
          /\ ErrorPaths = SelectSeq(ExpandedInputs(argv.files), NotFile)

C4_Witness ==
    /\ MultiReturned
    /\ Len(request.file_paths) = 2
    /\ NotFile(request.file_paths[1]) /\ IsFile(request.file_paths[2])
    /\ Len(results) = 1 /\ Len(errors) = 1

LibraryEncoding(m) == IF m = "text-davinci-003" THEN "p50k_base"
                      ELSE IF m = "gpt-4" THEN "cl100k_base" ELSE "o200k_base"

\* The encoding the stated precedence selects for a resolvable (model, encoding).
RequiredEncoding(m, e) ==
    LET c == RequiredCall(m, e) IN
    IF c.fn = "get_encoding" THEN c.arg ELSE LibraryEncoding(c.arg)

\* The server's count_tokens got as far as resolving the encoder.
SingleResolved == pc = "mcp_returned" /\ request.op = "count_tokens"
                    /\ ~IsAbsent(request.file_path) /\ ~IsDirectory(request.file_path)

\* C5: encoder resolution in both entry points: an encoding name wins over
\* the model; else a model of the static table selects exactly its mapped
\* encoding; else the model goes to the library's lookup; with neither, the
\* default model's encoding.  An unresolvable name is a visible failure and
\* leaves no encoder behind.
C5_Precedence ==
    /\ (pc \in {"cli_loop", "cli_files", "cli_exit"} /\ ~argv.list_encodings
          /\ argv.files # <<>>) =>
          /\ libCalls[1] = RequiredCall(argv.model, argv.encoding)
          /\ IF Resolvable(argv.model, argv.encoding)
             THEN encoder = RequiredEncoding(argv.model, argv.encoding)
             ELSE encoder = None /\ pc = "cli_exit" /\ exit_code = 1
    /\ (CallOver /\ request.op \in {"count_tokens_multi", "count_text_tokens"}) =>
          /\ libCalls[1] = RequiredCall(request.model, None)
          /\ IF Resolvable(request.model, None)
             THEN encoder = RequiredEncoding(request.model, None)
                  /\ response.encoding = encoder
             ELSE encoder = None /\ raised # None
    /\ MultiCounting => encoder = RequiredEncoding(request.model, None)
    /\ SingleResolved =>
          /\ libCalls[1] = RequiredCall(request.model, None)
          /\ IF Resolvable(request.model, None)
             THEN encoder = RequiredEncoding(request.model, None)
             ELSE encoder = None /\ "error" \in DOMAIN response

C5_Witness ==
    /\ pc = "cli_exit"
    /\ argv.encoding = "p50k_base" /\ argv.model = "gpt-4"
    /\ encoder = "p50k_base"

\* C6: a nonexistent path: count_file_tokens returns (0, file not found); the
\* CLI given only that path prints no result line, prints one error line on
\* the error stream and exits 1; the server's count_tokens returns an error
\* field with tokens 0.
C6_FileNotFound ==
    /\ \A p \in PathChoices, e \in Range(list_encoding_names) :
          IsAbsent(p) =>
             /\ count_file_tokens(p, e).token_count = 0
             /\ count_file_tokens(p, e).error = [msg |-> "File not found", path |-> p]
    /\ (CliCounted /\ Len(argv.files) = 1 /\ ~HasStar(argv.files[1])
          /\ IsAbsent(argv.files[1])) =>
          /\ results = <<>>
          /\ \A k \in DOMAIN stdout : stdout[k].line \notin {"result", "Total"}
          /\ stderr = <<[line |-> "Errors:"],
                        [line |-> "error",
                         error |-> [msg |-> "File not found", path |-> argv.files[1]]]>>
          /\ exit_code = 1
    /\ (pc = "mcp_returned" /\ request.op = "count_tokens"
          /\ IsAbsent(request.file_path)) =>
          /\ "error" \in DOMAIN response
          /\ response.error = [msg |-> "File not found", path |-> request.file_path]
          /\ response.tokens = 0

C6_Witness ==
    /\ CliCounted
    /\ argv.files = << <<"m">> >>
    /\ exit_code = 1 /\ Len(stderr) = 2

DirectoryReport(e) == e.msg \in {"Skipping directory", "Path is a directory"}

\* C7: a directory, in the CLI loop, in count_tokens and in
\* count_tokens_multi, is reported as an error; it is never read and never
\* reaches encode (every encode call belongs to a result record), it has no
\* result record and adds nothing to the total.
C7_DirectoryNeverEncoded ==
    /\ (CliCounting \/ CliCounted \/ MultiCounting \/ MultiReturned) =>
          /\ \A k \in DOMAIN reads : ~IsDirectory(reads[k])
          /\ \A k \in DOMAIN results : ~IsDirectory(results[k].file_path)
          /\ Len(EncodeCalls) = Len(results)
          /\ \A k \in DOMAIN errors :
                IsDirectory(errors[k].path) => DirectoryReport(errors[k])
    /\ CliCounted =>
          \A p \in Range(ExpandedInputs(argv.files)) :
             IsDirectory(p) => \E k \in DOMAIN errors : errors[k].path = p
    /\ MultiReturned =>
          \A p \in Range(request.file_paths) :
             IsDirectory(p) => \E k \in DOMAIN errors : errors[k].path = p
    /\ (pc = "mcp_returned" /\ request.op = "count_tokens"
          /\ IsDirectory(request.file_path)) =>
          /\ "error" \in DOMAIN response
          /\ DirectoryReport(response.error)
          /\ response.tokens = 0
          /\ reads = <<>> /\ EncodeCalls = <<>>

C7_Witness ==
    /\ CliCounted
    /\ \E k \in DOMAIN argv.files : IsDirectory(argv.files[k])
    /\ \E k \in DOMAIN errors : errors[k] = [msg |-> "Skipping directory", path |-> <<"d">>]
    /\ results # <<>>

\* C8: with --list-encodings the CLI prints the encodings and the model
\* table and exits 0 whatever the other arguments are: it never checks the
\* files, never resolves --model or --encoding, never reads or counts a file.
C8_ListEncodingsFirst ==
    (pc \in {"cli_main", "cli_loop", "cli_files", "cli_exit"} /\ argv.list_encodings) =>
       /\ pc \in {"cli_main", "cli_exit"}
       /\ encoder = None /\ reads = <<>> /\ results = <<>> /\ errors = <<>>
       /\ stderr = <<>> /\ raised = None
       /\ pc = "cli_exit" =>
             /\ exit_code = 0
             /\ \A e \in {"p50k_base", "cl100k_base", "o200k_base"} :
                   \E k \in DOMAIN stdout :
                      stdout[k].line = "encoding" /\ stdout[k].name = e
             /\ \E k \in DOMAIN stdout : stdout[k].line = "mapping"
             /\ \A k \in DOMAIN libCalls :
                   libCalls[k].fn = "get_encoding" /\ KnownEncoding(libCalls[k].arg)

C8_Witness ==
    /\ pc = "cli_exit" /\ argv.list_encodings
    /\ argv.encoding = "no-such-encoding" /\ argv.files = << <<"m">> >>
    /\ exit_code = 0

NoMatchError(p) == [msg |-> "No files match pattern", path |-> p]

RECURSIVE CountIn(_, _)
CountIn(sq, x) ==
    IF sq = <<>> THEN 0
    ELSE (IF Head(sq) = x THEN 1 ELSE 0) + CountIn(Tail(sq), x)

\* C9: in the CLI a pattern that matches no file is recorded as exactly one
\* "no files match" error and the loop goes on with the next argument,
\* keeping the results so far; at the end every argument has been processed.
C9_NoMatchContinues ==
    /\ [][(pc = "cli_loop" /\ i <= Len(argv.files) /\ UnmatchedPattern(argv.files[i])) =>
            /\ errors' = Append(errors, NoMatchError(argv.files[i]))
            /\ results' = results /\ total_tokens' = total_tokens
            /\ i' = i + 1 /\ pc' = "cli_loop"]_vars
    /\ [](CliCounted =>
            /\ i = Len(argv.files) + 1
            /\ \A k \in DOMAIN argv.files :
                  UnmatchedPattern(argv.files[k]) =>
                     CountIn(errors, NoMatchError(argv.files[k]))
                        = CountIn(argv.files, argv.files[k])
            /\ \A p \in Range(ExpandedInputs(argv.files)) :
                  IsFile(p) => p \in Range(ResultPaths))

C9_Witness ==
    /\ CliCounted
    /\ argv.files = << <<"*", "z">>, <<"a">> >>
    /\ errors = << NoMatchError(<<"*", "z">>) >>
    /\ Len(results) = 1

\* C10: when the CLI reaches its exit-code decision after the loop, results
\* and errors are not both empty, so it exits 0 exactly when a file produced
\* a result.
C10_NeverBothEmpty ==
    /\ (pc = "cli_loop" /\ i > Len(argv.files)) => (results # <<>> \/ errors # <<>>)
    /\ CliCounted =>
          /\ results # <<>> \/ errors # <<>>
          /\ exit_code = 0 <=> results # <<>>

C10_Witness ==
    /\ CliCounted
    /\ results = <<>> /\ Len(errors) = 1 /\ exit_code = 1
    /\ UnmatchedPattern(argv.files[1])

====
